---- MODULE Spec2Model ----
(***************************************************************************)
(* Verification model of the inksight backend core:                        *)
(*   - ContentCache (backend/core/cache.py): two-layer TTL cache with      *)
(*     per-device single-flight background regeneration;                   *)
(*   - the generate-and-render pipeline (backend/core/pipeline.py);        *)
(*   - the declarative content generator (backend/core/json_content.py).   *)
(*                                                                         *)
(* Time is a discrete clock counted in minutes.  Coroutines are modelled   *)
(* at the granularity of their suspension points: cache.get and cache.set  *)
(* hold the asyncio lock for their whole body and are atomic; every        *)
(* `await self.get(...)` of check_and_regenerate_all is one step; the      *)
(* code between the last get and the return has no suspension point and    *)
(* belongs to the step of that last get.  The persistent store is assumed  *)
(* to answer (the `except Exception: pass` arms around it are not taken).  *)
(***************************************************************************)
EXTENDS Integers, Sequences, FiniteSets, TLC

\* ------------------------------------------------------------------ bounds
MaxTime == 2

\* --------------------------------------------------------------- constants
SCREEN_WIDTH == 400
SCREEN_HEIGHT == 300

Macs == {"A", "B"}
Callers == {1, 2}
TaskIds == {1, 2}

\* persona names as they may appear in a device config or a request
PersonaNames == {"STOIC", "stoic", "ZEN"}

\* str.upper() on the persona names of the model
Upper(p) ==
    CASE p = "stoic" -> "STOIC"
      [] p = "zen" -> "ZEN"
      [] OTHER -> p

\* get_cacheable_modes(): the cacheable ids of the catalog
CacheableModes == {"STOIC", "ROAST", "ZEN", "DAILY"}

\* device configs: enabled personas ("modes") and refresh interval in minutes
Configs ==
    { [modes |-> <<"STOIC", "ZEN">>, refresh_interval |-> 1],
      [modes |-> <<"STOIC", "BRIEFING">>, refresh_interval |-> 1],
      [modes |-> <<"stoic">>, refresh_interval |-> 2],
      [modes |-> <<"BRIEFING">>, refresh_interval |-> 1] }

Resolutions == { <<400, 300>>, <<200, 150>> }

\* Python None (for a raster) and None for the optional ttl_minutes argument
None == [none |-> TRUE]
NoTtl == -1

\* ------------------------------------------------------------------- state
VARIABLES
    now,            \* datetime.now(), in minutes
    cache,          \* ContentCache._cache : key -> [img, ts]
    db,             \* image_cache table   : key -> [img, created_at]
    regenerating,   \* ContentCache._regenerating
    tasks,          \* background tasks created by asyncio.create_task
    calls,          \* running check_and_regenerate_all coroutines
    obs,            \* what the last step returned to its caller, if it returned
    gen,            \* the running content generation call and its outcome
    rend,           \* the last render_json_mode call and what it produced
    ttl,            \* the last _get_ttl_minutes call and what it returned
    registry,       \* ModeRegistry: _builtin, _json_modes and the last call made
    objs,           \* image objects: their pixels, which of them callers hold
    lock            \* ContentCache._lock: who holds it and who waits for it

cvars == <<now, cache, db, regenerating, tasks, calls>>
rvars == <<rend, ttl, registry, objs, lock>>
vars == <<now, cache, db, regenerating, tasks, calls, obs, gen, rend, ttl, registry, objs, lock>>

NoObs == [op |-> "none"]

\* ------------------------------------------------------------ pure helpers
\* A string as the sequence of its pieces between colons. A device id is
\* one token of the model: every id the cache sees has the six octets of a
\* MAC address, so all device ids have the same number of pieces.
Segments(s) ==
    CASE s = "A:STOIC" -> <<"A", "STOIC">>
      [] s = "STOIC:200X150" -> <<"STOIC", "200X150">>
      [] OTHER -> <<s>>

\* f"{screen_w}x{screen_h}" for the resolutions of the model
SizeKey(res) ==
    CASE res = <<400, 300>> -> "400x300"
      [] res = <<200, 150>> -> "200x150"
      [] res = <<296, 128>> -> "296x128"

\* _get_cache_key with the resolution left out of the key
GetCacheKeyNoResolution(mac, persona, res) ==
    Segments(mac) \o Segments(Upper(persona))

\* ContentCache._get_cache_key: f"{mac}:{persona}" at the default
\* resolution, f"{mac}:{persona}:{screen_w}x{screen_h}" otherwise, as the
\* sequence of the pieces between the colons.
GetCacheKey(mac, persona, res) ==
    IF res[1] = SCREEN_WIDTH /\ res[2] = SCREEN_HEIGHT
    THEN Segments(mac) \o Segments(Upper(persona))
    ELSE Segments(mac) \o Segments(Upper(persona))
         \o <<SizeKey(res)>>

\* int(x * 1.1) rounded up instead of down
IntTimes1_1Ceil(x) == (x * 11 + 9) \div 10

\* int(x * 1.1) for a non-negative integer x
IntTimes1_1(x) == (x * 11) \div 10

\* ContentCache._get_ttl_minutes
GetTtlMinutes(config) ==
    LET InCacheable(m) == m \in CacheableModes
        mode_count == Len(SelectSeq(config.modes, InCacheable))
    IN IntTimes1_1(config.refresh_interval * mode_count)

\* the list `modes` computed at the head of check_and_regenerate_all
UpperSeq(s) == [i \in 1..Len(s) |-> Upper(s[i])]

EnabledCacheable(config) ==
    LET UpperInCacheable(m) == Upper(m) \in CacheableModes
    IN UpperSeq(SelectSeq(config.modes, UpperInCacheable))

\* dict helpers
DictSet(d, k, v) == [x \in DOMAIN d \cup {k} |-> IF x = k THEN v ELSE d[x]]
DictDel(d, k) == [x \in DOMAIN d \ {k} |-> d[x]]
EmptyDict == [x \in {} |-> None]

GetFromDbInclusive(store, key, ttl_minutes, t) ==
    IF key \notin DOMAIN store THEN None
    ELSE IF ttl_minutes # NoTtl /\ t - store[key].created_at > ttl_minutes
         THEN None
         ELSE store[key].img

\* ContentCache._get_from_db: the raster of the row, or None
GetFromDb(store, key, ttl_minutes, t) ==
    IF key \notin DOMAIN store THEN None
    ELSE IF ttl_minutes # NoTtl /\ t - store[key].created_at >= ttl_minutes
         THEN None
         ELSE store[key].img

GetSliding(mem, store, key, config, ttl_arg, t) ==
    LET inMem == key \in DOMAIN mem
        ttl1 == IF inMem /\ ttl_arg = NoTtl THEN GetTtlMinutes(config) ELSE ttl_arg
        hit == inMem /\ (t - mem[key].ts < ttl1)
        mem1 == IF inMem /\ ~hit THEN DictDel(mem, key) ELSE mem
        img == GetFromDb(store, key, ttl1, t)
    IN IF hit
       THEN [result |-> mem[key].img,
             cache |-> DictSet(mem, key, [img |-> mem[key].img, ts |-> t])]
       ELSE IF img # None
            THEN [result |-> img, cache |-> DictSet(mem1, key, [img |-> img, ts |-> t])]
            ELSE [result |-> None, cache |-> mem1]

\* ContentCache.get: returned value and the in-process map it leaves
Get(mem, store, key, config, ttl_arg, t) ==
    LET inMem == key \in DOMAIN mem
        ttl1 == IF inMem /\ ttl_arg = NoTtl THEN GetTtlMinutes(config) ELSE ttl_arg
        hit == inMem /\ (t - mem[key].ts < ttl1)
        mem1 == IF inMem /\ ~hit THEN DictDel(mem, key) ELSE mem
        img == GetFromDb(store, key, ttl1, t)
    IN IF hit
       THEN [result |-> mem[key].img, cache |-> mem]
       ELSE IF img # None
            THEN [result |-> img, cache |-> DictSet(mem1, key, [img |-> img, ts |-> t])]
            ELSE [result |-> None, cache |-> mem1]

\* ContentCache.set: both layers written under the lock
SetMem(mem, key, img, t) == DictSet(mem, key, [img |-> img, ts |-> t])
SetDb(store, key, img, t) == DictSet(store, key, [img |-> img, created_at |-> t])

\* a raster, labelled with the set call that wrote it
Raster(key, t, by) == [k |-> key, at |-> t, by |-> by]

\* pipeline.generate_and_render: returns what _render_for_persona returns
GenerateAndRender(persona, img) == [type |-> "Image", img |-> img]

\* the statement `img, _content = await generate_and_render(...)`
UnpackPair(v) ==
    IF v.type = "tuple" THEN [ok |-> TRUE, img |-> v.first]
    ELSE [ok |-> FALSE, img |-> None]

MayScheduleBatchAlways(mac, inflight) == TRUE

\* the guard `if mac not in self._regenerating`
MayScheduleBatch(mac, inflight) == mac \notin inflight

DiscardMarkerSkipped(inflight, mac) == inflight

\* the `finally: self._regenerating.discard(mac)` of _regenerate_background
DiscardMarker(inflight, mac) == inflight \ {mac}

\* an entry of either layer that is younger than ttl_minutes at time t
Live(mem, store, key, ttl_minutes, t) ==
    \/ key \in DOMAIN mem /\ t - mem[key].ts < ttl_minutes
    \/ key \in DOMAIN store /\ t - store[key].created_at < ttl_minutes

\* what one get did to the in-process map
CacheEffect(mem, mem2, store, key, t) ==
    IF mem2 = mem THEN "none"
    ELSE IF /\ key \notin DOMAIN mem
            /\ key \in DOMAIN store
            /\ mem2 = DictSet(mem, key, [img |-> store[key].img, ts |-> t])
         THEN "rehydrate"
         ELSE "other"

FreeTask == [pc |-> "free"]
IdleCall == [pc |-> "idle"]
IdleGen == [pc |-> "idle"]

InFlight(mac) == {t \in TaskIds : tasks[t].pc # "free" /\ tasks[t].mac = mac}

\* the observation of one cache.get
GetObs(key, config, ttl_arg, t, result) ==
    [key |-> key, ttl |-> GetTtlMinutes(config), ttl_arg |-> ttl_arg,
     t |-> t, result |-> result]

\* ------------------------------------------------- mode registry: values
\* The seven content types _validate_mode_def accepts.
ContentTypes ==
    {"llm", "llm_json", "static", "external_data", "image_gen", "computed",
     "composite"}

\* A declarative mode definition, by what the validator and the registry
\* read of it: the id as written, content.type, content.prompt_template
\* ("" when missing), whether content.fallback is non-empty, the length of
\* layout.body, the display name, and layout_overrides: missing ("none"),
\* something that is not a dict ("other"), or a dict from size keys to
\* values, each a dict or not, with or without a body of some length.
ModeDef(mode_id, ctype, prompt_template, has_fallback, body_len, display_name) ==
    [mode_id |-> mode_id, ctype |-> ctype, prompt_template |-> prompt_template,
     has_fallback |-> has_fallback, body_len |-> body_len,
     display_name |-> display_name,
     layout_overrides |-> [kind |-> "none", items |-> EmptyDict]]

\* The native modes of the registry.
BuiltinModes == {"DAILY", "COUNTDOWN", "RECIPE"}

\* The definitions shipped in modes/builtin, loaded with source builtin_json.
BuiltinJsonIds == {"STOIC", "ZEN"}

\* The registry once _init_registry has run: the native modes registered
\* and the shipped declarative modes loaded.
InitRegistry ==
    [builtin |-> BuiltinModes,
     json_modes |-> [id \in BuiltinJsonIds |->
                        [source |-> "builtin_json",
                         definition |-> ModeDef(id, "llm", "p", TRUE, 1, "shipped")]],
     last |-> [op |-> "init"]]

\* No image object exists yet and no set or get has been made.
NoObjs ==
    [heap |-> <<>>, held |-> {}, lastset |-> [op |-> "none"],
     setat |-> EmptyDict, seen |-> EmptyDict]

\* asyncio.Lock() as constructed: unlocked, nobody waiting
FreeLock == [locked |-> FALSE, waiters |-> <<>>, pc |-> [c \in Callers |-> [pc |-> "idle"]]]

\* No _get_ttl_minutes call has been made yet.
IdleTtl == [pc |-> "idle"]

\* No render call has been made yet.
IdleRend == [pc |-> "idle"]

\* -------------------------------------------------------------------- Init
Init ==
    /\ now = 0
    /\ cache = EmptyDict
    /\ db = EmptyDict
    /\ regenerating = {}
    /\ tasks = [t \in TaskIds |-> FreeTask]
    /\ calls = [c \in Callers |-> IdleCall]
    /\ obs = NoObs
    /\ gen = IdleGen
    /\ rend = IdleRend
    /\ ttl = IdleTtl
    /\ registry = InitRegistry
    /\ objs = NoObjs
    /\ lock = FreeLock

\* ----------------------------------------------------------------- actions
Tick ==
    /\ now < MaxTime
    /\ now' = now + 1
    /\ obs' = NoObs
    /\ UNCHANGED <<cache, db, regenerating, tasks, calls, gen, rvars>>

\* a caller's cache.get(mac, persona, config, screen_w=, screen_h=)
FgGet(macs, personas, configs, ress) ==
    \E mac \in macs, persona \in personas, config \in configs, res \in ress :
        LET key == GetCacheKey(mac, persona, res)
            r == Get(cache, db, key, config, NoTtl, now)
        IN /\ cache' = r.cache
           /\ obs' = [op |-> "get", get |-> GetObs(key, config, NoTtl, now, r.result)]
           /\ UNCHANGED <<now, db, regenerating, tasks, calls, gen, rvars>>

\* a caller's cache.set(mac, persona, img, screen_w, screen_h)
FgSet(macs, personas, ress) ==
    \E mac \in macs, persona \in personas, res \in ress :
        LET key == GetCacheKey(mac, persona, res)
            img == Raster(key, now, "fg")
        IN /\ cache' = SetMem(cache, key, img, now)
           /\ db' = SetDb(db, key, img, now)
           /\ obs' = NoObs
           /\ UNCHANGED <<now, regenerating, tasks, calls, gen, rvars>>

\* check_and_regenerate_all, from the call to the first `await self.get`
CheckStart(c, macs, configs, ress) ==
    /\ calls[c].pc = "idle"
    /\ \E mac \in macs, config \in configs, res \in ress :
        LET modes == EnabledCacheable(config)
        IN IF modes = <<>>
           THEN /\ obs' = [op |-> "check", mac |-> mac, modes |-> modes,
                           result |-> FALSE, allLive |-> FALSE,
                           spawned |-> FALSE, effects |-> {},
                           inflightBefore |-> Cardinality(InFlight(mac))]
                /\ UNCHANGED calls
           ELSE /\ calls' = [calls EXCEPT ![c] =
                                [pc |-> "loop", mac |-> mac, config |-> config,
                                 res |-> res, modes |-> modes,
                                 ttl_minutes |-> GetTtlMinutes(config),
                                 i |-> 1, allLive |-> TRUE, effects |-> {}]]
                /\ obs' = NoObs
    /\ UNCHANGED <<now, cache, db, regenerating, tasks, gen, rvars>>

\* one iteration of the liveness loop and, after the last one, the rest of
\* check_and_regenerate_all (marker test, create_task, return)
CheckStep(c) ==
    /\ calls[c].pc = "loop"
    /\ LET call == calls[c]
           key == GetCacheKey(call.mac, call.modes[call.i], call.res)
           r == Get(cache, db, key, call.config, call.ttl_minutes, now)
           live == Live(cache, db, key, call.ttl_minutes, now)
           eff == call.effects \cup {CacheEffect(cache, r.cache, db, key, now)}
           g == GetObs(key, call.config, call.ttl_minutes, now, r.result)
           done(result, spawned) ==
               [op |-> "check", mac |-> call.mac, modes |-> call.modes,
                result |-> result, allLive |-> call.allLive /\ live,
                spawned |-> spawned, effects |-> eff,
                inflightBefore |-> Cardinality(InFlight(call.mac)), get |-> g]
       IN /\ cache' = r.cache
          /\ IF r.result = None
             THEN /\ calls' = [calls EXCEPT ![c] = IdleCall]
                  /\ IF MayScheduleBatch(call.mac, regenerating)
                     THEN \E t \in TaskIds :
                            /\ tasks[t].pc = "free"
                            /\ \A u \in TaskIds : tasks[u].pc = "free" => t <= u
                            /\ regenerating' = regenerating \cup {call.mac}
                            /\ tasks' = [tasks EXCEPT ![t] =
                                   [pc |-> "ctx", mac |-> call.mac,
                                    config |-> call.config, modes |-> call.modes,
                                    res |-> call.res, pending |-> {},
                                    rendered |-> {},
                                    generated |-> TRUE, stored |-> TRUE]]
                            /\ obs' = done(FALSE, TRUE)
                     ELSE /\ obs' = done(FALSE, FALSE)
                          /\ UNCHANGED <<regenerating, tasks>>
             ELSE IF call.i = Len(call.modes)
                  THEN /\ calls' = [calls EXCEPT ![c] = IdleCall]
                       /\ obs' = done(TRUE, FALSE)
                       /\ UNCHANGED <<regenerating, tasks>>
                  ELSE /\ calls' = [calls EXCEPT ![c] =
                              [call EXCEPT !.i = call.i + 1,
                                           !.allLive = call.allLive /\ live,
                                           !.effects = eff]]
                       /\ obs' = [op |-> "checkstep", get |-> g]
                       /\ UNCHANGED <<regenerating, tasks>>
    /\ UNCHANGED <<now, db, gen, rvars>>

\* the observation of a batch that has ended: `generated` tells whether
\* generate_and_render returned for every persona, `stored` whether cache.set
\* was called for every persona; while the batch runs, `rendered` holds the
\* personas for which generate_and_render has returned
BatchObs(task, ctx) ==
    [op |-> "batch", mac |-> task.mac, config |-> task.config, res |-> task.res,
     modes |-> task.modes, ctx |-> ctx,
     generated |-> task.generated, stored |-> task.stored]

\* _regenerate_background / _generate_all_modes: the shared date and weather
\* fetch; when it raises, the except and finally arms run at once
BatchFetchContext(t) ==
    /\ tasks[t].pc = "ctx"
    /\ \E ok \in BOOLEAN :
        IF ok
        THEN /\ tasks' = [tasks EXCEPT ![t].pc = "gen",
                                       ![t].pending = {tasks[t].modes[i] : i \in 1..Len(tasks[t].modes)}]
             /\ obs' = NoObs
             /\ UNCHANGED regenerating
        ELSE /\ tasks' = [tasks EXCEPT ![t] = FreeTask]
             /\ regenerating' = DiscardMarker(regenerating, tasks[t].mac)
             /\ obs' = BatchObs(tasks[t], FALSE)
    /\ UNCHANGED <<now, cache, db, calls, gen, rvars>>

\* _generate_single_mode for one persona of the batch
BatchGenerateSingleMode(t) ==
    /\ tasks[t].pc = "gen"
    /\ \E persona \in tasks[t].pending, ok \in BOOLEAN :
        LET key == GetCacheKey(tasks[t].mac, persona, tasks[t].res)
            v == GenerateAndRender(persona, Raster(key, now, "bg"))
            u == UnpackPair(v)
        IN /\ IF ok /\ u.ok
              THEN /\ cache' = SetMem(cache, key, u.img, now)
                   /\ db' = SetDb(db, key, u.img, now)
              ELSE UNCHANGED <<cache, db>>
           /\ tasks' = [tasks EXCEPT
                 ![t].pending = @ \ {persona},
                 ![t].rendered = IF ok THEN @ \cup {persona} ELSE @,
                 ![t].generated = @ /\ ok,
                 ![t].stored = @ /\ ok /\ u.ok]
    /\ obs' = NoObs
    /\ UNCHANGED <<now, regenerating, calls, gen, rvars>>

\* the gather of the persona tasks has returned: log and finally
BatchFinish(t) ==
    /\ tasks[t].pc = "gen"
    /\ tasks[t].pending = {}
    /\ tasks' = [tasks EXCEPT ![t] = FreeTask]
    /\ regenerating' = DiscardMarker(regenerating, tasks[t].mac)
    /\ obs' = BatchObs(tasks[t], TRUE)
    /\ UNCHANGED <<now, cache, db, calls, gen, rvars>>

\* One device, one check_and_regenerate_all at a time, every config: the
\* TTL, liveness and rehydration behaviour of the two layers.
Next ==
    \/ Tick
    \/ FgGet({"A"}, PersonaNames, Configs, {<<400, 300>>})
    \/ FgSet({"A"}, PersonaNames, {<<400, 300>>})
    \/ CheckStart(1, {"A"}, Configs, {<<400, 300>>})
    \/ CheckStep(1)
    \/ \E t \in TaskIds : BatchFetchContext(t)
    \/ \E t \in TaskIds : BatchGenerateSingleMode(t)
    \/ \E t \in TaskIds : BatchFinish(t)

Spec == Init /\ [][Next]_vars

\* Two devices, two concurrent check_and_regenerate_all calls, within one
\* minute of the clock: the single-flight protocol.
FlightConfigs ==
    { [modes |-> <<"STOIC", "BRIEFING">>, refresh_interval |-> 1],
      [modes |-> <<"BRIEFING">>, refresh_interval |-> 1] }

FlightNext ==
    \/ FgGet(Macs, {"STOIC"}, FlightConfigs, {<<400, 300>>})
    \/ FgSet(Macs, {"STOIC"}, {<<400, 300>>})
    \/ \E c \in Callers : CheckStart(c, Macs, FlightConfigs, {<<400, 300>>})
    \/ \E c \in Callers : CheckStep(c)
    \/ \E t \in TaskIds : BatchFetchContext(t)
    \/ \E t \in TaskIds : BatchGenerateSingleMode(t)
    \/ \E t \in TaskIds : BatchFinish(t)

FlightSpec == Init /\ [][FlightNext]_vars

\* the asyncio loop runs every created task and resumes it when the call it
\* awaits has returned or raised
FairFlightSpec ==
    /\ FlightSpec
    /\ \A t \in TaskIds : WF_vars(BatchFetchContext(t))
    /\ \A t \in TaskIds : WF_vars(BatchGenerateSingleMode(t))
    /\ \A t \in TaskIds : WF_vars(BatchFinish(t))

\* ------------------------------------------- content generation: values
\* Field values are text tokens; what the code asks of a text is its length,
\* its truthiness, and what strip() / [:1] make of it.
DEDUP_MAX_RETRIES == 2
QualityMaxLen == 500
RecentHashLimit == 20

\* Largest dedup history (number of stored recent hashes) explored.
MaxHistory == 2

\* Largest refresh interval (minutes) handed to _get_ttl_minutes.
MaxRefresh == 60

\* Largest number of image objects created in one behaviour.
MaxObjects == 4

StrLen(s) == CASE s = "" -> 0 [] s = "LONG" -> QualityMaxLen + 1 [] OTHER -> 2
Truthy(s) == s # ""

\* str.strip(): surrounding whitespace removed.
StripWs(s) == CASE s = " a1" -> "a1" [] OTHER -> s

\* str.strip('"...'): surrounding quotation marks removed.
StripQuotes(s) == CASE s = "\"q1\"" -> "q1" [] OTHER -> s

\* val[:1] if val else ""
FirstChar(s) ==
    CASE s = "" -> ""
      [] s \in {"q1", "q2"} -> "q"
      [] s = "\"q1\"" -> "\""
      [] s \in {"fq", "fa", "f"} -> "f"
      [] s = "LONG" -> "L"
      [] s = "q1| a1" -> "q"
      [] s \in {"J1", "J2", "J3"} -> "{"
      [] s = "[1]" -> "["
      [] s = " a1" -> " "
      [] OTHER -> s

DictGet(d, k, default) == IF k \in DOMAIN d THEN d[k] ELSE default

\* dict.update: a's entries overwritten and extended by b's.
Update(a, b) ==
    [k \in DOMAIN a \cup DOMAIN b |-> IF k \in DOMAIN b THEN b[k] ELSE a[k]]

SeqRange(q) == {q[i] : i \in 1..Len(q)}

\* A language-model response text: the text itself (raw), its pieces when
\* split at the separator (parts), and what json.loads makes of it after
\* cleaning: an object (obj), a non-object value, or a decode error.
Responses ==
    { [raw |-> "J1", parts |-> <<"J1">>, json |-> "obj",
       obj |-> [quote |-> "q1", author |-> "a1"]],
      [raw |-> "J2", parts |-> <<"J2">>, json |-> "obj",
       obj |-> [quote |-> "q2", author |-> "a1"]],
      [raw |-> "J3", parts |-> <<"J3">>, json |-> "obj",
       obj |-> [quote |-> ""]],
      [raw |-> "[1]", parts |-> <<"[1]">>, json |-> "nonobj", obj |-> EmptyDict],
      [raw |-> "q1| a1", parts |-> <<"q1", " a1">>, json |-> "error",
       obj |-> EmptyDict],
      [raw |-> "\"q1\"", parts |-> <<"\"q1\"">>, json |-> "error",
       obj |-> EmptyDict],
      [raw |-> "LONG", parts |-> <<"LONG">>, json |-> "error", obj |-> EmptyDict],
      [raw |-> "", parts |-> <<"">>, json |-> "error", obj |-> EmptyDict] }

\* The outcome of one _call_llm: it raises, or it returns a response text.
Raises == [raises |-> TRUE]
LlmOutcomes(up) == IF up THEN {Raises} \cup Responses ELSE {Raises}

\* ------------------------------------- content generation: mode definitions
\* The "content" block of a mode definition; an absent key is written as its
\* .get() default, except fallback/static_data/output_fields whose absence
\* the code distinguishes (has_static, has_fields).
BaseContent ==
    [type |-> "static", fallback |-> EmptyDict, fallback_pool |-> <<>>,
     has_static |-> FALSE, static_data |-> EmptyDict, provider |-> "",
     output_format |-> "raw", has_fields |-> FALSE, output_fields |-> <<"text">>,
     output_schema |-> EmptyDict, post_process |-> EmptyDict,
     summarize |-> TRUE, include_insight |-> TRUE, steps |-> <<>>]

QuoteFallback == [quote |-> "fq", author |-> "fa"]

StoicContent ==
    [BaseContent EXCEPT !.type = "llm", !.output_format = "json",
        !.has_fields = TRUE, !.output_fields = <<"quote", "author">>,
        !.fallback = QuoteFallback]
ZenContent ==
    [BaseContent EXCEPT !.type = "llm", !.output_format = "text_split",
        !.has_fields = TRUE, !.output_fields = <<"quote", "author">>,
        !.post_process = [quote |-> "strip_quotes"],
        !.fallback = QuoteFallback]
WordContent ==
    [BaseContent EXCEPT !.type = "llm", !.has_fields = TRUE,
        !.output_fields = <<"word">>,
        !.post_process = [word |-> "first_char"],
        !.fallback_pool = << [word |-> "fq"], [word |-> "q2"] >>]
FitnessContent ==
    [BaseContent EXCEPT !.type = "llm_json",
        !.output_schema = [quote |-> "", tip |-> "dt"],
        !.fallback = QuoteFallback]
StaticContent ==
    [BaseContent EXCEPT !.has_static = TRUE,
        !.static_data = [text |-> "q1"], !.fallback = [text |-> "fq"]]
MemoContent ==
    [BaseContent EXCEPT !.type = "computed", !.provider = "memo",
        !.fallback = [memo_text |-> "fq"]]
BriefingContent ==
    [BaseContent EXCEPT !.type = "external_data", !.provider = "briefing",
        !.fallback = [hn_items |-> "fq", insight |-> "fa"]]
WeatherContent ==
    [BaseContent EXCEPT !.type = "external_data",
        !.provider = "weather_forecast", !.fallback = [today_temp |-> "fq"]]
ArtwallContent ==
    [BaseContent EXCEPT !.type = "image_gen", !.provider = "artwall",
        !.fallback = [artwork_title |-> "fq", image_url |-> ""]]
CompositeContent ==
    [BaseContent EXCEPT !.type = "composite",
        !.steps = << StaticContent, StoicContent >>,
        !.fallback = [text |-> "q1", quote |-> "fq", author |-> "fa"]]

\* The declarative modes of the registry: mode_id -> definition.
JsonModes ==
    [STOIC |-> StoicContent, ZEN |-> ZenContent, WORD |-> WordContent,
     FITNESS |-> FitnessContent, STATIC |-> StaticContent,
     MEMO |-> MemoContent, BRIEFING |-> BriefingContent,
     WEATHER |-> WeatherContent, ARTWALL |-> ArtwallContent,
     COMBO |-> CompositeContent,
     PAIR |-> [CompositeContent EXCEPT
                 !.steps = << [StaticContent EXCEPT
                                 !.static_data = [text |-> "q1", quote |-> "q2"]],
                              StoicContent >>,
                 !.fallback = [quote |-> "fq", note |-> "fn"]],
     BLANK |-> [CompositeContent EXCEPT
                 !.steps = << [BaseContent EXCEPT !.has_static = TRUE] >>]]

\* Persona ids handed to the pipeline; the last is registered nowhere.
ResolvePersonas == DOMAIN JsonModes \cup BuiltinModes \cup {"UNKNOWN_MODE"}

\* ----------------------------------------- content generation: functions
\* _get_fallback: the records random.choice may pick, or the single fallback.
GetFallback(content_cfg) ==
    IF Len(content_cfg.fallback_pool) > 0
    THEN SeqRange(content_cfg.fallback_pool)
    ELSE {content_cfg.fallback}

\* _compute_content_hash: digest of the key-sorted serialisation; records
\* with equal entries, and only those, get equal digests.
ComputeContentHash(result) == <<"md5", result>>

ImportantKeys ==
    {"quote", "question", "body", "word", "event_title", "challenge",
     "name_cn", "text"}

ValidateContentQuality(result) ==
    /\ DOMAIN result # {}
    /\ \A k \in DOMAIN result : StrLen(result[k]) <= QualityMaxLen
    /\ \A k \in DOMAIN result \cap ImportantKeys : Truthy(result[k])

PostProcessValue(rule, val) ==
    CASE rule = "first_char" -> FirstChar(val)
      [] rule = "strip_quotes" -> StripQuotes(val)
      [] OTHER -> val

\* _apply_post_process: each rule rewrites its field, reading "" for a
\* field the record lacks; a rule the code does not know leaves the record.
ApplyPostProcess(result, content_cfg) ==
    LET rules == content_cfg.post_process
        known == {f \in DOMAIN rules : rules[f] \in {"first_char", "strip_quotes"}}
    IN  [f \in DOMAIN result \cup known |->
            IF f \in known
            THEN PostProcessValue(rules[f], DictGet(result, f, ""))
            ELSE result[f]]

ParseTextSplit(text, content_cfg, fallback) ==
    LET fields == content_cfg.output_fields
    IN  [f \in SeqRange(fields) |->
            LET i == CHOOSE j \in 1..Len(fields) :
                        /\ fields[j] = f
                        /\ \A h \in 1..Len(fields) : fields[h] = f => h <= j
            IN  IF i <= Len(text.parts)
                THEN StripQuotes(StripWs(text.parts[i]))
                ELSE DictGet(fallback, f, "")]

ParseJsonOutput(text, content_cfg, fallback) ==
    IF text.json # "obj" THEN fallback
    ELSE IF content_cfg.has_fields /\ Len(content_cfg.output_fields) > 0
         THEN [f \in SeqRange(content_cfg.output_fields) |->
                  DictGet(text.obj, f, DictGet(fallback, f, ""))]
         ELSE text.obj

ParseLlmOutput(text, content_cfg, fallback) ==
    CASE content_cfg.output_format = "text_split" ->
            ParseTextSplit(text, content_cfg, fallback)
      [] content_cfg.output_format = "json" ->
            ParseJsonOutput(text, content_cfg, fallback)
      [] OTHER ->
            [f \in {content_cfg.output_fields[1]} |-> text.raw]

ParseLlmJsonOutput(text, content_cfg, fallback) ==
    IF text.json # "obj" THEN fallback
    ELSE [f \in DOMAIN content_cfg.output_schema |->
             DictGet(text.obj, f, content_cfg.output_schema[f])]

\* Whether the response text was an unusable one for the mode's parser: the
\* parser then hands back the fallback in place of a parsed record.
ParseFails(text, content_cfg) ==
    /\ \/ content_cfg.type = "llm_json"
       \/ content_cfg.type = "llm" /\ content_cfg.output_format = "json"
    /\ text.json # "obj"

\* One pass of the attempt loop of generate_json_mode_content, given what
\* _call_llm did: "raise" and "quality" return at once, "fresh" leaves the
\* loop, "collide" goes round again.
Attempt(content_cfg, fallback, recent_hashes, outcome) ==
    IF "raises" \in DOMAIN outcome
    THEN [kind |-> "raise", value |-> fallback, parse_failed |-> FALSE]
    ELSE LET result ==
                 CASE content_cfg.type = "llm" ->
                        ParseLlmOutput(outcome, content_cfg, fallback)
                   [] content_cfg.type = "llm_json" ->
                        ParseLlmJsonOutput(outcome, content_cfg, fallback)
                   [] OTHER -> [text |-> outcome.raw]
             pf == ParseFails(outcome, content_cfg)
         IN  IF ~ValidateContentQuality(result)
             THEN [kind |-> "quality",
                   value |-> ApplyPostProcess(fallback, content_cfg),
                   parse_failed |-> pf]
             ELSE IF ComputeContentHash(result) \notin recent_hashes
                  THEN [kind |-> "fresh", value |-> result, parse_failed |-> pf]
                  ELSE [kind |-> "collide", value |-> result, parse_failed |-> pf]

\* --------------------------------- content generation: providers and steps
\* What a generate call finds outside itself: the device configuration and
\* date context it is handed, and what each provider call does. FailedEnv is
\* the environment in which every provider call fails.
FailedEnv ==
    [memo_text |-> "", date_ctx |-> EmptyDict, hn |-> "", ph |-> "", v2 |-> "",
     summarized |-> FALSE, insight |-> "default_insight", today_temp |-> "--",
     title |-> Raises, image |-> "raise", habit |-> "raise"]

Envs(content_cfg, up) ==
    CASE content_cfg.provider = "memo" ->
            {[FailedEnv EXCEPT !.memo_text = m] : m \in {"", "m1"}}
      [] content_cfg.provider = "daily_meta" ->
            {[FailedEnv EXCEPT !.date_ctx = d] :
                d \in {EmptyDict, [year |-> "2026", day |-> "4"]}}
      [] content_cfg.provider = "habit" /\ up ->
            {[FailedEnv EXCEPT !.habit = h] : h \in {"raise", "h1"}}
      [] content_cfg.provider = "briefing" /\ up ->
            {[FailedEnv EXCEPT !.hn = h, !.ph = p, !.summarized = z, !.insight = i] :
                h \in {"", "hn1"}, p \in {"", "ph1"}, z \in BOOLEAN,
                i \in {"default_insight", "ins", ""}}
      [] content_cfg.provider = "weather_forecast" /\ up ->
            {[FailedEnv EXCEPT !.today_temp = t] : t \in {"--", "", "21"}}
      [] content_cfg.provider = "artwall" /\ up ->
            {[FailedEnv EXCEPT !.title = t, !.image = i] :
                t \in {Raises} \cup {r \in Responses : r.raw \in {"", "\"q1\""}},
                i \in {"raise", "nokey", "status", "ok"}}
      [] content_cfg.provider = "artwall" /\ ~up ->
            {[FailedEnv EXCEPT !.image = i] : i \in {"raise", "nokey", "status"}}
      [] OTHER -> {FailedEnv}

GenerateCountdownContent == [events |-> "computed_events"]

GenerateComputedContent(content_cfg, fallback, env) ==
    CASE content_cfg.provider = "countdown" -> GenerateCountdownContent
      [] content_cfg.provider = "daily_meta" ->
            Update(fallback,
                   [k \in {"year", "day", "month_cn", "weekday_cn",
                           "day_of_year", "days_in_year"} |->
                       DictGet(env.date_ctx, k, "None")])
      [] content_cfg.provider = "lifebar" ->
            [k \in {"year_pct", "year_label", "month_pct", "month_label",
                    "week_pct", "week_label", "life_pct", "life_label",
                    "day_of_year", "days_in_year", "day", "days_in_month",
                    "weekday_num", "week_total", "age", "life_expect"} |->
                "computed"]
      [] content_cfg.provider = "memo" ->
            [memo_text |->
                IF Truthy(env.memo_text) THEN env.memo_text
                ELSE DictGet(fallback, "memo_text", "default_memo")]
      [] content_cfg.provider = "habit" ->
            IF env.habit = "raise" THEN fallback
            ELSE [habits |-> env.habit, summary |-> "summary",
                  week_progress |-> "completed", week_total |-> "total"]
      [] OTHER -> fallback

\* x or y
Or(x, y) == IF Truthy(x) THEN x ELSE y

GenerateExternalDataContent(content_cfg, fallback, env) ==
    CASE content_cfg.provider = "briefing" ->
            IF ~Truthy(env.hn) /\ ~Truthy(env.ph) /\ ~Truthy(env.v2)
            THEN fallback
            ELSE LET sum == content_cfg.summarize /\ env.summarized
                     hn_items == IF sum /\ Truthy(env.hn) THEN "hn_sum" ELSE env.hn
                     ph_item == IF sum /\ Truthy(env.ph) THEN "ph_sum" ELSE env.ph
                     insight == IF content_cfg.include_insight THEN env.insight ELSE ""
                 IN  Update(fallback,
                        [hn_items |-> Or(hn_items, DictGet(fallback, "hn_items", "")),
                         ph_item |-> Or(ph_item, DictGet(fallback, "ph_item", "")),
                         v2ex_items |-> Or(env.v2, DictGet(fallback, "v2ex_items", "")),
                         insight |-> Or(insight, DictGet(fallback, "insight", "")),
                         ph_name |-> IF Truthy(ph_item) THEN "ph_name" ELSE "",
                         ph_tagline |-> IF Truthy(ph_item) THEN "ph_tagline" ELSE ""])
      [] content_cfg.provider = "weather_forecast" ->
            IF ~Truthy(env.today_temp) \/ env.today_temp = "--"
            THEN fallback
            ELSE Update(fallback,
                        [today_temp |-> env.today_temp, forecast |-> "forecast"])
      [] OTHER -> fallback

\* generate_artwall_content: the title falls back to a built-in one, and
\* every way out returns a record the function builds itself.
GenerateArtwallContent(env) ==
    LET artwork_title ==
            IF "raises" \in DOMAIN env.title THEN "default_title"
            ELSE Or(StripQuotes(env.title.raw), "default_title")
    IN  CASE env.image = "raise" ->
                [artwork_title |-> artwork_title, image_url |-> "",
                 description |-> "default_description", prompt |-> ""]
          [] env.image = "ok" ->
                [artwork_title |-> artwork_title, image_url |-> "url",
                 description |-> "description_of_context",
                 prompt |-> "image_prompt", model_name |-> "qwen-image-max"]
          [] OTHER ->
                [artwork_title |-> artwork_title, image_url |-> "",
                 description |-> "description_of_context",
                 prompt |-> "image_prompt"]

GenerateImageGenContent(content_cfg, fallback, env) ==
    IF content_cfg.provider = "artwall" THEN GenerateArtwallContent(env)
    ELSE fallback

LlmTypes == {"llm", "llm_json"}
OneStepTypes == {"static", "computed", "external_data", "image_gen", "composite"}

\* What one nested step of a composite draws: its fallback, its environment
\* and, for a language-model step, what the call does.
StepInputs(content_cfg, up) ==
    [fallback : GetFallback(content_cfg),
     env : Envs(content_cfg, up),
     outcome : IF content_cfg.type \in OneStepTypes THEN {Raises}
               ELSE LlmOutcomes(up)]

\* generate_json_mode_content for a definition that is not a composite and
\* is called without a device id (no dedup history is loaded, so the attempt
\* loop runs once).
GenerateStep(content_cfg, in) ==
    CASE content_cfg.type = "static" ->
            IF content_cfg.has_static THEN content_cfg.static_data ELSE in.fallback
      [] content_cfg.type = "computed" ->
            GenerateComputedContent(content_cfg, in.fallback, in.env)
      [] content_cfg.type = "external_data" ->
            GenerateExternalDataContent(content_cfg, in.fallback, in.env)
      [] content_cfg.type = "image_gen" ->
            GenerateImageGenContent(content_cfg, in.fallback, in.env)
      [] content_cfg.type \notin OneStepTypes ->
            LET a == Attempt(content_cfg, in.fallback, {}, in.outcome)
            IN  IF a.kind = "fresh" THEN ApplyPostProcess(a.value, content_cfg)
                ELSE a.value

RECURSIVE MergeSteps(_, _, _, _)
MergeSteps(steps, ins, i, result) ==
    IF i > Len(steps) THEN result
    ELSE MergeSteps(steps, ins, i + 1,
                    Update(result, GenerateStep(steps[i], ins[i])))

CompositeInputs(content_cfg, up) ==
    LET steps == content_cfg.steps
        all == UNION {StepInputs(steps[i], up) : i \in 1..Len(steps)}
    IN  {ins \in [1..Len(steps) -> all] :
            \A i \in 1..Len(steps) : ins[i] \in StepInputs(steps[i], up)}

GenerateCompositeContent(content_cfg, fallback, ins) ==
    LET result == MergeSteps(content_cfg.steps, ins, 1, EmptyDict)
    IN  IF DOMAIN result = {} THEN fallback ELSE Update(fallback, result)

\* The content types generate_json_mode_content answers before it reaches
\* the attempt loop.
GenerateOneStep(content_cfg, fallback, env, ins) ==
    IF content_cfg.type = "composite"
    THEN GenerateCompositeContent(content_cfg, fallback, ins)
    ELSE GenerateStep(content_cfg,
                      [fallback |-> fallback, env |-> env, outcome |-> Raises])

\* The records generate can return for a mode, and so the records whose
\* digests the content-history store can hold for it.
PossibleResults(content_cfg) ==
    UNION { {f, ApplyPostProcess(f, content_cfg)} \cup
            {ApplyPostProcess(Attempt(content_cfg, f, {}, o).value, content_cfg) :
                o \in Responses} \cup
            {Attempt(content_cfg, f, {}, o).value : o \in Responses}
          : f \in GetFallback(content_cfg) }

\* get_recent_content_hashes: read only for a device id and a language-model
\* type; empty when the store has nothing or cannot be read.
RecentHashes(content_cfg, mac) ==
    IF mac # "" /\ content_cfg.type \in LlmTypes
    THEN {h \in SUBSET {ComputeContentHash(r) : r \in PossibleResults(content_cfg)} :
            Cardinality(h) <= MaxHistory /\ Cardinality(h) <= RecentHashLimit}
    ELSE {{}}

\* ------------------------------------------- content generation: pipeline
\* A finished call: the record it returned, or the exception it let out.
Returned(value) == [error |-> "", value |-> value]
Raised(error) == [error |-> error, value |-> EmptyDict]

PromptPersonas == {"DAILY"}
DailyFields ==
    {"quote", "author", "book_title", "book_author", "book_desc", "tip",
     "season_text"}

\* _fallback_content
FallbackContent(persona) ==
    CASE persona = "DAILY" -> [f \in DailyFields |-> "daily_fallback"]
      [] persona = "BRIEFING" ->
            [hn_items |-> "unavailable", ph_item |-> "unavailable",
             v2ex_items |-> "", insight |-> "unavailable"]
      [] persona = "COUNTDOWN" -> [events |-> ""]
      [] OTHER -> [quote |-> "...", author |-> ""]

\* generate_content: a persona without a prompt template gets the built-in
\* fallback record; json.loads yielding a non-object makes data.get fail
\* with an error the handler does not catch.
GenerateContent(persona, outcome) ==
    IF persona \notin PromptPersonas THEN Returned(FallbackContent(persona))
    ELSE IF "raises" \in DOMAIN outcome THEN Returned(FallbackContent(persona))
    ELSE IF persona = "DAILY"
         THEN CASE outcome.json = "error" -> Returned(FallbackContent("DAILY"))
                [] outcome.json = "nonobj" -> Raised("AttributeError")
                [] OTHER -> Returned([f \in DailyFields |-> DictGet(outcome.obj, f, "")])
         ELSE Returned([quote |-> outcome.raw, author |-> ""])

\* generate_briefing_content
GenerateBriefingContent(env) ==
    IF ~Truthy(env.hn) /\ ~Truthy(env.ph) /\ ~Truthy(env.v2)
    THEN FallbackContent("BRIEFING")
    ELSE [hn_items |-> Or(IF env.summarized /\ Truthy(env.hn) THEN "hn_sum" ELSE env.hn,
                          "fetch_failed"),
          ph_item |-> Or(IF env.summarized /\ Truthy(env.ph) THEN "ph_sum" ELSE env.ph,
                         "N/A"),
          v2ex_items |-> env.v2,
          insight |-> env.insight]

\* generate_recipe_content: any failure yields the built-in meal plan.
GenerateRecipeContent(outcome) ==
    LET plan == [season |-> "season", breakfast |-> "default_breakfast",
                 lunch |-> "default_lunch", dinner |-> "default_dinner",
                 nutrition |-> "default_nutrition"]
    IN  IF "raises" \in DOMAIN outcome \/ outcome.json # "obj" THEN plan
        ELSE [f \in DOMAIN plan |->
                IF f = "season" THEN plan[f] ELSE DictGet(outcome.obj, f, plan[f])]

\* _call_builtin_content
CallBuiltinContent(persona, env, outcome) ==
    CASE persona = "ARTWALL" -> Returned(GenerateArtwallContent(env))
      [] persona = "BRIEFING" -> Returned(GenerateBriefingContent(env))
      [] persona = "RECIPE" -> Returned(GenerateRecipeContent(outcome))
      [] persona = "COUNTDOWN" -> Returned(GenerateCountdownContent)
      [] OTHER -> GenerateContent(persona, outcome)

\* The registry's lookups fold the id to upper case.
IsJsonMode(persona) == Upper(persona) \in DOMAIN JsonModes
GetBuiltin(persona) == Upper(persona) \in BuiltinModes
IsSupported(persona) == IsJsonMode(persona) \/ GetBuiltin(persona)

\* -------------------------------------------- content generation: actions
\* The record of a content call: who made it (via), the device it is made
\* for and the recent hashes stored for that device and mode, its inputs
\* (mac is the device id the generator was handed), where the attempt loop
\* stands, how many language-model calls it has made, how many of its
\* attempts collided with the history, the number of the call at which an
\* attempt first failed (0: none has), the hash of the record of its latest
\* attempt, and, once done, its result.
GenCall(pc, via, persona, content_cfg, mac, up, fallback, device, stored) ==
    [pc |-> pc, via |-> via, persona |-> persona, content_cfg |-> content_cfg,
     mac |-> mac, up |-> up, fallback |-> fallback,
     device |-> device, stored |-> stored,
     recent_hashes |-> IF mac = device THEN stored ELSE {},
     attempt |-> 0, calls |-> 0,
     collisions |-> 0, failed_at |-> 0, hash |-> ComputeContentHash(EmptyDict),
     result |-> Returned(EmptyDict)]

\* generate_json_mode_content from its entry to its first language-model
\* call, or to its return for the content types that make none.
StartGenerate(via, persona, content_cfg, mac, up, device) ==
    \E fallback \in GetFallback(content_cfg),
       recent \in RecentHashes(content_cfg, device) :
        IF content_cfg.type \in OneStepTypes
        THEN \E env \in Envs(content_cfg, up),
                ins \in CompositeInputs(content_cfg, up) :
                gen' = [GenCall("done", via, persona, content_cfg, mac, up,
                                fallback, device, recent)
                        EXCEPT !.result =
                            Returned(GenerateOneStep(content_cfg, fallback, env, ins))]
        ELSE gen' = GenCall("llm", via, persona, content_cfg, mac, up,
                            fallback, device, recent)

\* A direct call of generate_json_mode_content for a registered mode; up
\* says whether the upstream services answer during the call.
Generate(modes, macs) ==
    /\ gen.pc = "idle"
    /\ \E mode_id \in modes, mac \in macs, up \in BOOLEAN :
          StartGenerate("generate", mode_id, JsonModes[mode_id], mac, up, mac)
    /\ obs' = NoObs
    /\ UNCHANGED <<cvars, rvars>>

\* _generate_content_for_persona, reached through generate_and_render by a
\* request or a batch of `device`: a declarative mode goes to
\* generate_json_mode_content (no device id is passed on), a native mode to
\* its content function, anything else to generate_content.
Resolve(personas, devices) ==
    /\ gen.pc = "idle"
    /\ \E persona \in personas, up \in BOOLEAN, device \in devices :
          IF IsJsonMode(persona)
          THEN StartGenerate("resolve", persona, JsonModes[Upper(persona)], "", up,
                             device)
          ELSE \E outcome \in LlmOutcomes(up),
                  env \in Envs([BaseContent EXCEPT !.provider =
                                   CASE persona = "ARTWALL" -> "artwall"
                                     [] persona = "BRIEFING" -> "briefing"
                                     [] OTHER -> ""], up) :
                  gen' = [GenCall("done", "resolve", persona, BaseContent, "", up,
                                  EmptyDict, device, {})
                          EXCEPT !.calls = IF Upper(persona) \in PromptPersonas
                                              \/ persona = "RECIPE"
                                           THEN 1 ELSE 0,
                                 !.result =
                                    IF GetBuiltin(persona)
                                    THEN CallBuiltinContent(persona, env, outcome)
                                    ELSE GenerateContent(persona, outcome)]
    /\ obs' = NoObs
    /\ UNCHANGED <<cvars, rvars>>

LoopContinuesOnceMore(kind, attempt) ==
    kind = "collide" /\ attempt + 1 < 2 + DEDUP_MAX_RETRIES

\* for attempt in range(1 + DEDUP_MAX_RETRIES): the loop goes round again
\* when the pass did not break (its record collided) and passes remain.
LoopContinues(kind, attempt) ==
    kind = "collide" /\ attempt + 1 < 1 + DEDUP_MAX_RETRIES

\* One pass of the attempt loop: the language-model call and what follows it
\* up to the next call or the return.
LlmAttempt ==
    /\ gen.pc = "llm"
    /\ \E outcome \in LlmOutcomes(gen.up) :
          LET a == Attempt(gen.content_cfg, gen.fallback, gen.recent_hashes, outcome)
              made == gen.calls + 1
              failed == a.kind \in {"raise", "quality"} \/ a.parse_failed
              g == [gen EXCEPT !.calls = made,
                       !.hash = ComputeContentHash(a.value),
                       !.failed_at = IF @ = 0 /\ failed THEN made ELSE @,
                       !.collisions = IF a.kind = "collide" THEN @ + 1 ELSE @]
          IN  CASE a.kind \in {"raise", "quality"} ->
                     gen' = [g EXCEPT !.pc = "done", !.result = Returned(a.value)]
                [] ~LoopContinues(a.kind, gen.attempt) ->
                     gen' = [g EXCEPT !.pc = "done",
                                !.result = Returned(
                                    ApplyPostProcess(a.value, gen.content_cfg))]
                [] OTHER ->
                     gen' = [g EXCEPT !.attempt = @ + 1]
    /\ obs' = NoObs
    /\ UNCHANGED <<cvars, rvars>>

\* The caller takes the result.
GenReturn ==
    /\ gen.pc = "done"
    /\ gen' = IdleGen
    /\ obs' = [op |-> "content", persona |-> gen.persona, result |-> gen.result]
    /\ UNCHANGED <<cvars, rvars>>

GenMacs == {"", "A"}

GenNext ==
    \/ Generate(DOMAIN JsonModes, GenMacs)
    \/ Resolve(ResolvePersonas \cup {"stoic"}, GenMacs)
    \/ LlmAttempt
    \/ GenReturn

GenSpec == Init /\ [][GenNext]_vars

\* The event loop resumes a call that awaits the language model once the
\* awaited call has returned or raised.
FairGenSpec == GenSpec /\ WF_vars(LlmAttempt)

\* ------------------------------------------------------------- renderer
\* int(v * ctx.scale) with scale = screen_w / 400.0
ScaleInt(v, screen_w) == (v * screen_w) \div 400

\* int(v * min_scale) with min_scale = min(screen_w / 400.0, screen_h / 300.0)
MinScaleInt(v, screen_w, screen_h) ==
    IF screen_w * 300 <= screen_h * 400
    THEN (v * screen_w) \div 400
    ELSE (v * screen_h) \div 300

\* status_bar_bottom = int(screen_h * (0.10 if screen_h < 200 else 0.12))
StatusBarBottom(screen_h) ==
    IF screen_h < 200 THEN (screen_h * 10) \div 100
                      ELSE (screen_h * 12) \div 100

\* wrap_text: the number of lines that n glyphs take when every glyph is
\* font_size wide. A line is closed when one more glyph would pass max_width;
\* a glyph wider than max_width stands on a line of its own.
WrapText(n, font_size, max_width) ==
    LET per_line == IF max_width \div font_size = 0 THEN 1
                    ELSE max_width \div font_size
    IN  (n + per_line - 1) \div per_line

\* The context a block renderer draws through: the cursor y, what has been
\* drawn (kind, y, argument) and whether an exception is propagating. Before
\* the body, draw_status_bar has drawn its rule at the fixed height 32.
StartCtx(y) == [y |-> y, drawn |-> << <<"status", 32, 0>> >>, raised |-> FALSE]

\* The while loop of _render_centered_text, entered with font_size >= 10:
\* it shrinks the font by 2 while the text is taller than the body, and
\* leaves with the measures of the last size it tried.
RECURSIVE FitFont(_, _, _, _, _, _)
FitFont(font_size, n, max_w, line_spacing, body_height, shrink) ==
    LET lines == WrapText(n, font_size, max_w)
        line_h == font_size + line_spacing
        total_h == lines * line_h
    IN  IF shrink /\ total_h > body_height /\ font_size - 2 >= 10
        THEN FitFont(font_size - 2, n, max_w, line_spacing, body_height, shrink)
        ELSE [lines |-> lines, line_h |-> line_h, total_h |-> total_h]

\* _render_centered_text. A text is represented by its number of glyphs.
\* When the scaled font size is below 10 the loop body never runs and the
\* code after it reads total_h, which was never assigned.
RenderCenteredText(ctx, block, content, screen_w, footer_top, use_full_body) ==
    LET n == DictGet(content, DictGet(block, "field", "text"), 0)
        font_size == ScaleInt(DictGet(block, "font_size", 16), screen_w)
        line_spacing == ScaleInt(DictGet(block, "line_spacing", 8), screen_w)
        body_height == footer_top - ctx.y
        max_w == (screen_w * 88) \div 100
        full == use_full_body /\ DictGet(block, "vertical_center", TRUE)
        fit == FitFont(font_size, n, max_w, line_spacing, body_height, full)
        y_start == IF full THEN ctx.y + ((body_height - fit.total_h) \div 2)
                   ELSE ctx.y
    IN  IF n = 0 THEN ctx
        ELSE IF font_size < 10 THEN [ctx EXCEPT !.raised = TRUE]
        ELSE [ctx EXCEPT
                !.y = y_start + fit.total_h + 4,
                !.drawn = @ \o [i \in 1..fit.lines |->
                                  <<"line", y_start + (i - 1) * fit.line_h, 0>>]]

\* The for loop of _render_list over items[:max_items]: i is the position
\* of the next item, shown the length of items[:max_items], total len(items).
RECURSIVE ListLoop(_, _, _, _, _, _, _)
ListLoop(i, rendered_count, ctx, shown, total, item_height, footer_top) ==
    IF i > shown THEN ctx
    ELSE IF ctx.y + item_height > footer_top
    THEN LET remaining == total - rendered_count
         IN  IF remaining > 0
             THEN [ctx EXCEPT !.drawn = Append(@, <<"more", ctx.y, remaining>>)]
             ELSE ctx
    ELSE IF ctx.y >= footer_top - 10 THEN ctx
    ELSE ListLoop(i + 1, rendered_count + 1,
                  [ctx EXCEPT !.y = @ + item_height,
                              !.drawn = Append(@, <<"row", ctx.y, i>>)],
                  shown, total, item_height, footer_top)

\* _render_list. The field holds a list, represented by its number of
\* items (each a short text that fills one row), or is missing.
RenderList(ctx, block, content, screen_w, footer_top) ==
    LET field_name == DictGet(block, "field", "")
        max_items == DictGet(block, "max_items", 8)
        spacing == ScaleInt(DictGet(block, "item_spacing", 16), screen_w)
    IN  IF field_name \notin DOMAIN content THEN ctx
        ELSE LET total == content[field_name]
                 shown == IF total < max_items THEN total ELSE max_items
             IN  ListLoop(1, 0, ctx, shown, total, spacing, footer_top)

\* _render_spacer
RenderSpacer(ctx, block, screen_w, screen_h) ==
    [ctx EXCEPT !.y = @ + MinScaleInt(DictGet(block, "height", 12),
                                      screen_w, screen_h)]

\* _render_separator
RenderSeparator(ctx, block) ==
    [ctx EXCEPT !.y = @ + 8 + DictGet(block, "line_width", 1),
                !.drawn = Append(@, <<"rule", ctx.y, 0>>)]

\* _render_image. The content record holds the image URL, optionally a
\* pre-fetched buffer ("_prefetched_<field>": bytes that decode, "image", or
\* bytes that do not, "garbage") and, as `fetch`, what the network answers
\* for the URL: an image, bytes that do not decode, or a failure of both
\* attempts. The pre-fetched buffer is decoded outside the try block.
RenderImage(ctx, block, content, screen_w) ==
    LET field_name == DictGet(block, "field", "image_url")
        image_url == DictGet(content, field_name, "")
        height == ScaleInt(DictGet(block, "height", 140), screen_w)
        y == DictGet(block, "y", ctx.y)
        prefetched == DictGet(content, "_prefetched_image_url", "")
        pasted == [ctx EXCEPT !.y = y + height + DictGet(block, "margin_bottom", 6),
                              !.drawn = Append(@, <<"image", y, height>>)]
    IN  IF image_url = "" THEN ctx
        ELSE IF prefetched # ""
        THEN IF prefetched = "image" THEN pasted
             ELSE [ctx EXCEPT !.raised = TRUE]
        ELSE IF DictGet(content, "fetch", "fail") = "image" THEN pasted
        ELSE [ctx EXCEPT
                !.y = y + height + ScaleInt(DictGet(block, "margin_bottom", 6), screen_w),
                !.drawn = Append(@, <<"unavailable", y, height>>)]

\* _render_block: dispatch on the block type; an unknown type is logged and
\* draws nothing.
RenderBlock(ctx, block, content, screen_w, screen_h, footer_top) ==
    LET btype == DictGet(block, "type", "")
    IN  CASE btype = "centered_text" ->
                RenderCenteredText(ctx, block, content, screen_w, footer_top, FALSE)
          [] btype = "list" -> RenderList(ctx, block, content, screen_w, footer_top)
          [] btype = "spacer" -> RenderSpacer(ctx, block, screen_w, screen_h)
          [] btype = "separator" -> RenderSeparator(ctx, block)
          [] btype = "image" -> RenderImage(ctx, block, content, screen_w)
          [] OTHER -> ctx

\* for block in body: stop once the cursor is within 10 of the footer; an
\* exception raised by a block ends the loop.
RECURSIVE RenderBody(_, _, _, _, _, _, _)
RenderBody(ctx, body, i, content, screen_w, screen_h, footer_top) ==
    IF i > Len(body) \/ ctx.raised \/ ctx.y >= footer_top - 10 THEN ctx
    ELSE RenderBody(RenderBlock(ctx, body[i], content, screen_w, screen_h, footer_top),
                    body, i + 1, content, screen_w, screen_h, footer_top)

\* render_json_mode: the raster returned, or no raster when a block raised.
\* After the body, draw_footer draws its rule at screen_h - 30.
RenderJsonMode(mode_def, content, screen_w, screen_h) ==
    LET overrides == DictGet(mode_def, "layout_overrides", EmptyDict)
        size_key == <<screen_w, screen_h>>
        layout == IF size_key \in DOMAIN overrides
                  THEN Update(DictGet(mode_def, "layout", EmptyDict), overrides[size_key])
                  ELSE DictGet(mode_def, "layout", EmptyDict)
        ft_layout == DictGet(layout, "footer", EmptyDict)
        status_bar_bottom == StatusBarBottom(screen_h)
        footer_height == MinScaleInt(DictGet(ft_layout, "height", 30), screen_w, screen_h)
        footer_top == screen_h - footer_height
        body == DictGet(layout, "body", <<>>)
        body_align == DictGet(layout, "body_align", "center")
        has_vcenter == \E i \in 1..Len(body) :
                          /\ DictGet(body[i], "type", "") = "centered_text"
                          /\ DictGet(body[i], "vertical_center", TRUE)
        measure_ctx == RenderBody(StartCtx(status_bar_bottom), body, 1,
                                  content, screen_w, screen_h, footer_top)
        content_height == measure_ctx.y - status_bar_bottom
        available_height == footer_top - status_bar_bottom
        offset == IF (available_height - content_height) \div 2 > 0
                  THEN (available_height - content_height) \div 2 ELSE 0
        ctx == IF has_vcenter /\ Len(body) = 1
               THEN RenderCenteredText(StartCtx(status_bar_bottom), body[1],
                                       content, screen_w, footer_top, TRUE)
               ELSE IF body_align = "center" /\ Len(body) > 0
               THEN IF measure_ctx.raised THEN measure_ctx
                    ELSE RenderBody(StartCtx(status_bar_bottom + offset), body, 1,
                                    content, screen_w, screen_h, footer_top)
               ELSE RenderBody(StartCtx(status_bar_bottom), body, 1,
                               content, screen_w, screen_h, footer_top)
    IN  IF ctx.raised
        THEN [raised |-> TRUE,
              img |-> [mode |-> "", size |-> <<0, 0>>, drawn |-> <<>>]]
        ELSE [raised |-> FALSE,
              img |-> [mode |-> "1", size |-> <<screen_w, screen_h>>,
                       drawn |-> Append(ctx.drawn, <<"footer", screen_h - 30, 0>>)]]

\* Mode definitions handed to the renderer, by name.
RenderModes ==
    [QUOTE |->
        [mode_id |-> "QUOTE",
         layout |-> [body |-> << [type |-> "centered_text", field |-> "text",
                                  vertical_center |-> TRUE] >>]],
     QUOTE_BIG |->
        [mode_id |-> "QUOTE_BIG",
         layout |-> [body |-> << [type |-> "centered_text", field |-> "text",
                                  font_size |-> 24, vertical_center |-> TRUE] >>]],
     QUOTE_FIT |->
        [mode_id |-> "QUOTE_FIT",
         layout |-> [body |-> << [type |-> "centered_text", field |-> "text",
                                  vertical_center |-> TRUE] >>],
         layout_overrides |->
            (<<200, 150>> :>
                [body |-> << [type |-> "centered_text", field |-> "text",
                              font_size |-> 20, vertical_center |-> TRUE] >>])],
     LIST3 |->
        [mode_id |-> "LIST3",
         layout |-> [body_align |-> "top",
                     body |-> << [type |-> "list", field |-> "items",
                                  max_items |-> 3] >>]],
     LIST3_LOW |->
        [mode_id |-> "LIST3_LOW",
         layout |-> [body_align |-> "top",
                     body |-> << [type |-> "spacer", height |-> 190],
                                 [type |-> "list", field |-> "items",
                                  max_items |-> 3] >>]],
     LIST3_LOWER |->
        [mode_id |-> "LIST3_LOWER",
         layout |-> [body_align |-> "top",
                     body |-> << [type |-> "spacer", height |-> 210],
                                 [type |-> "list", field |-> "items",
                                  max_items |-> 3] >>]],
     LIST8 |->
        [mode_id |-> "LIST8",
         layout |-> [body |-> << [type |-> "centered_text", field |-> "text",
                                  font_size |-> 20, vertical_center |-> FALSE],
                                 [type |-> "separator"],
                                 [type |-> "list", field |-> "items"] >>]],
     TITLED |->
        [mode_id |-> "TITLED",
         layout |-> [body |-> << [type |-> "centered_text", field |-> "text",
                                  vertical_center |-> FALSE],
                                 [type |-> "hologram"],
                                 [type |-> "list", field |-> "items",
                                  max_items |-> 3, item_spacing |-> 24] >>,
                     footer |-> [height |-> 40]]],
     PHOTO |->
        [mode_id |-> "PHOTO",
         layout |-> [body |-> << [type |-> "image", field |-> "image_url",
                                  height |-> 100] >>]]]

\* Content records handed to the renderer: a text field by its number of
\* glyphs, a list field by its number of items, an image by its URL, its
\* pre-fetched buffer if any and what the network answers for the URL.
RenderContents ==
    << [text |-> 5],
       [text |-> 120],
       [text |-> 400],
       [text |-> 0],
       [text |-> 5, items |-> 5],
       [text |-> 5, items |-> 3],
       [text |-> 40, items |-> 12],
       [items |-> 0],
       [image_url |-> "u", fetch |-> "image"],
       [image_url |-> "u", fetch |-> "garbage"],
       [image_url |-> "u", fetch |-> "fail"],
       [image_url |-> "u", _prefetched_image_url |-> "image", fetch |-> "fail"],
       [image_url |-> "u", _prefetched_image_url |-> "garbage", fetch |-> "image"],
       [image_url |-> "", fetch |-> "fail"] >>

\* --------------------------------------------------------- renderer: action
\* One call of render_json_mode, from the arguments to the returned raster
\* or the exception.
Render(modes, contents, sizes) ==
    \E m \in modes, c \in contents, s \in sizes :
        LET r == RenderJsonMode(RenderModes[m], RenderContents[c], s[1], s[2])
        IN  /\ rend' = [pc |-> "done", mode_id |-> m, content |-> c,
                        screen |-> s, raised |-> r.raised, img |-> r.img]
            /\ UNCHANGED <<cvars, obs, gen, ttl, registry, objs, lock>>

\* The resolutions requested are 400x300, 200x150 and 296x128.
RenderNext ==
    Render(DOMAIN RenderModes, DOMAIN RenderContents,
           { <<400, 300>>, <<200, 150>>, <<296, 128>> })

RenderSpec == Init /\ [][RenderNext]_vars

\* ------------------------------------------------------------ TTL function
\* config["modes"]: lists of up to three names, repeats included; the names
\* are cacheable ones, one that is not, and one in lower case.
TtlModeLists ==
    UNION { [1..k -> {"STOIC", "ZEN", "BRIEFING", "stoic"}] : k \in 0..3 }

\* One call of ContentCache._get_ttl_minutes.
TtlCall(intervals, mode_lists) ==
    \E r \in intervals, ms \in mode_lists :
        LET config == [modes |-> ms, refresh_interval |-> r]
        IN  /\ ttl.pc = "idle"
            /\ ttl' = [pc |-> "done", config |-> config,
                       ttl_minutes |-> GetTtlMinutes(config)]
            /\ UNCHANGED <<cvars, obs, gen, rend, registry, objs, lock>>

\* The caller has taken the value.
TtlReturn ==
    /\ ttl.pc = "done"
    /\ ttl' = IdleTtl
    /\ UNCHANGED <<cvars, obs, gen, rend, registry, objs, lock>>

TtlNext ==
    \/ TtlCall(0..MaxRefresh, TtlModeLists)
    \/ TtlReturn

TtlSpec == Init /\ [][TtlNext]_vars

\* ---------------------------------------------- mode registry: functions
\* _validate_mode_def without the test for a fallback
ValidateModeDefNoFallback(definition) ==
    /\ definition.mode_id # ""
    /\ definition.ctype \in ContentTypes
    /\ definition.ctype \in {"llm", "llm_json"} => definition.prompt_template # ""
    /\ definition.body_len # 0
    /\ definition.layout_overrides.kind # "other"
    /\ \A key \in DOMAIN definition.layout_overrides.items :
          definition.layout_overrides.items[key].is_dict

\* _validate_mode_def
ValidateModeDef(definition) ==
    /\ definition.mode_id # ""
    /\ definition.ctype \in ContentTypes
    /\ definition.ctype \in {"llm", "llm_json"} => definition.prompt_template # ""
    /\ definition.ctype \in {"llm", "llm_json"} => definition.has_fallback
    /\ definition.body_len # 0
    /\ definition.layout_overrides.kind # "other"
    /\ \A key \in DOMAIN definition.layout_overrides.items :
          definition.layout_overrides.items[key].is_dict

\* render_json_mode: the length of the body of the layout it renders at a
\* resolution, {**layout, **overrides[size_key]}.get("body", [])
LayoutBodyLen(definition, res) ==
    LET overrides == definition.layout_overrides.items
        size_key == SizeKey(res)
    IN  IF size_key \in DOMAIN overrides /\ overrides[size_key].has_body
        THEN overrides[size_key].body_len
        ELSE definition.body_len

\* ModeRegistry.load_json_mode on a file that holds `definition` (readable:
\* the file opens and parses): the new _json_modes and the value returned,
\* the id registered (loaded) or None (not loaded).
LoadJsonMode(reg, definition, source, readable) ==
    LET mode_id == Upper(definition.mode_id)
    IN  IF \/ ~readable
           \/ mode_id = ""
           \/ ~ValidateModeDef(definition)
           \/ mode_id \in reg.builtin
        THEN [json_modes |-> reg.json_modes, result |-> [loaded |-> FALSE, mode_id |-> ""]]
        ELSE [json_modes |-> DictSet(reg.json_modes, mode_id,
                                     [source |-> source, definition |-> definition]),
              result |-> [loaded |-> TRUE, mode_id |-> mode_id]]

\* unregister_custom with the source test left out
UnregisterAnySource(reg, id) ==
    LET mode_id == Upper(id)
    IN  IF mode_id \in DOMAIN reg.json_modes
        THEN [json_modes |-> DictDel(reg.json_modes, mode_id), result |-> TRUE]
        ELSE [json_modes |-> reg.json_modes, result |-> FALSE]

\* ModeRegistry.unregister_custom
UnregisterCustom(reg, id) ==
    LET mode_id == Upper(id)
    IN  IF /\ mode_id \in DOMAIN reg.json_modes
           /\ reg.json_modes[mode_id].source = "custom"
        THEN [json_modes |-> DictDel(reg.json_modes, mode_id), result |-> TRUE]
        ELSE [json_modes |-> reg.json_modes, result |-> FALSE]

\* ------------------------------------------------ mode registry: actions
\* Definitions a caller may hand in.
ModeDefs ==
    { ModeDef(id, ctype, prompt, fb, body_len, "uploaded") :
        id \in {"", "STOIC", "stoic", "MY", "DAILY"},
        ctype \in {"llm", "static", "hologram"},
        prompt \in {"", "p"},
        fb \in BOOLEAN,
        body_len \in {0, 1} }
    \cup
    { [ModeDef("MY", "static", "", FALSE, 1, "uploaded")
         EXCEPT !.layout_overrides = o] :
        o \in { [kind |-> "other", items |-> EmptyDict] } \cup
              { [kind |-> "dict",
                 items |-> DictSet(EmptyDict, "200x150",
                              [is_dict |-> d, has_body |-> b, body_len |-> n])] :
                  d \in BOOLEAN, b \in BOOLEAN, n \in {0, 2} } }

\* registry.load_json_mode(path, source="custom")
Load(defs) ==
    \E definition \in defs, readable \in BOOLEAN :
        LET r == LoadJsonMode(registry, definition, "custom", readable)
        IN  /\ registry' = [builtin |-> registry.builtin,
                            json_modes |-> r.json_modes,
                            last |-> [op |-> "load", definition |-> definition,
                                      readable |-> readable, result |-> r.result]]
            /\ UNCHANGED <<cvars, obs, gen, rend, ttl, objs, lock>>

\* POST /api/modes/custom: validate, refuse a native id, write the file
\* with the id in upper case, drop a custom entry of that id, load the file.
CreateCustomMode(defs) ==
    \E body \in defs :
        LET mode_id == Upper(body.mode_id)
            stored == [body EXCEPT !.mode_id = mode_id]
            dropped == [registry EXCEPT
                          !.json_modes = UnregisterCustom(registry, mode_id).json_modes]
            r == LoadJsonMode(dropped, stored, "custom", TRUE)
            status == IF mode_id = "" \/ ~ValidateModeDef(body) THEN 400
                      ELSE IF mode_id \in registry.builtin THEN 409
                      ELSE IF ~r.result.loaded THEN 400
                      ELSE 200
        IN  /\ registry' = [builtin |-> registry.builtin,
                            json_modes |-> IF status = 200 THEN r.json_modes
                                           ELSE registry.json_modes,
                            last |-> [op |-> "create", definition |-> body,
                                      status |-> status]]
            /\ UNCHANGED <<cvars, obs, gen, rend, ttl, objs, lock>>

\* registry.unregister_custom(mode_id)
Remove(ids) ==
    \E id \in ids :
        LET r == UnregisterCustom(registry, id)
        IN  /\ registry' = [builtin |-> registry.builtin,
                            json_modes |-> r.json_modes,
                            last |-> [op |-> "remove", mode_id |-> id,
                                      result |-> r.result]]
            /\ UNCHANGED <<cvars, obs, gen, rend, ttl, objs, lock>>

RegistryNext ==
    \/ Load(ModeDefs)
    \/ CreateCustomMode(ModeDefs)
    \/ Remove({"STOIC", "stoic", "ZEN", "MY", "DAILY", "NONEXISTENT"})

RegistrySpec == Init /\ [][RegistryNext]_vars

\* ------------------------------------------------- cache: image objects
\* Image objects live in objs.heap, object number -> pixels; the cache maps
\* hold references to them. objs.held are the objects a caller can reach:
\* those it passed to set and those get returned to it. objs.lastset is the
\* latest set call, objs.setat the time of the latest set per key, and
\* objs.seen the pixels the first get since that set returned, per key.
Ref(o) == [oid |-> o]

\* The pixels of a newly rendered image, and of an image its holder drew on.
FreshPixels(o) == <<"rendered", o>>
Scribbled(o) == <<"scribbled", o>>

\* Handing out the object itself instead of a copy of it.
ImgAlias(heap, o) == [heap |-> heap, oid |-> o]

\* Image.copy(): a new object with the same pixels.
ImgCopy(heap, o) == [heap |-> Append(heap, heap[o]), oid |-> Len(heap) + 1]

\* cache.set(mac, persona, img, screen_w, screen_h), img being the image the
\* caller has just rendered and keeps a reference to. The row of the
\* persistent store holds the encoded bytes of img_copy, which nothing can
\* reach to change; it is represented by img_copy itself.
ObjSet(macs, personas, ress) ==
    \E mac \in macs, persona \in personas, res \in ress :
        LET key == GetCacheKey(mac, persona, res)
            img == Len(objs.heap) + 1
            heap1 == Append(objs.heap, FreshPixels(img))
            img_copy == ImgCopy(heap1, img)
        IN  /\ Len(img_copy.heap) <= MaxObjects
            /\ cache' = SetMem(cache, key, Ref(img_copy.oid), now)
            /\ db' = SetDb(db, key, Ref(img_copy.oid), now)
            /\ objs' = [heap |-> img_copy.heap,
                        held |-> objs.held \cup {img},
                        lastset |-> [op |-> "set", mac |-> mac, persona |-> persona,
                                     res |-> res, t |-> now, img |-> img,
                                     img_copy |-> Ref(img_copy.oid)],
                        setat |-> DictSet(objs.setat, key, now),
                        seen |-> DictDel(objs.seen, key)]
            /\ obs' = NoObs
            /\ UNCHANGED <<now, regenerating, tasks, calls, gen, rend, ttl, registry, lock>>

\* cache.get(mac, persona, config, screen_w=, screen_h=): the entry found,
\* and the copy of it handed to the caller.
ObjGet(macs, personas, configs, ress) ==
    \E mac \in macs, persona \in personas, config \in configs, res \in ress :
        LET key == GetCacheKey(mac, persona, res)
            r == Get(cache, db, key, config, NoTtl, now)
            returned == ImgCopy(objs.heap, r.result.oid)
            again == key \in DOMAIN objs.seen
        IN  /\ cache' = r.cache
            /\ IF r.result = None
               THEN /\ obs' = [op |-> "get",
                               get |-> GetObs(key, config, NoTtl, now, r.result),
                               call |-> <<mac, persona, res>>]
                    /\ UNCHANGED objs
               ELSE /\ Len(returned.heap) <= MaxObjects
                    /\ obs' = [op |-> "get",
                               get |-> GetObs(key, config, NoTtl, now, r.result),
                               call |-> <<mac, persona, res>>,
                               pixels |-> returned.heap[returned.oid],
                               again |-> again,
                               first |-> IF again THEN objs.seen[key]
                                         ELSE returned.heap[returned.oid]]
                    /\ objs' = [objs EXCEPT
                                  !.heap = returned.heap,
                                  !.held = @ \cup {returned.oid},
                                  !.seen = IF again THEN @
                                           ELSE DictSet(@, key, returned.heap[returned.oid])]
            /\ UNCHANGED <<now, db, regenerating, tasks, calls, gen, rend, ttl, registry, lock>>

\* A caller draws on an image object it holds.
ObjMutate ==
    \E o \in objs.held :
        /\ objs.heap[o] # Scribbled(o)
        /\ objs' = [objs EXCEPT !.heap[o] = Scribbled(o)]
        /\ obs' = NoObs
        /\ UNCHANGED <<cvars, gen, rend, ttl, registry, lock>>

\* The names a request may carry for a persona include a custom mode id
\* that ends like a resolution suffix.
ObjNext ==
    \/ Tick
    \/ ObjSet({"A"}, {"STOIC", "STOIC:200X150"}, Resolutions)
    \/ ObjGet(Macs, {"STOIC", "stoic", "STOIC:200X150"},
              { [modes |-> <<"STOIC", "ZEN">>, refresh_interval |-> 1] },
              Resolutions)
    \/ ObjMutate

ObjSpec == Init /\ [][ObjNext]_vars

\* ---------------------------------------------------- the cache lock
\* ContentCache has one asyncio.Lock. get and set run wholly inside
\* `async with self._lock`; check_and_regenerate_all takes it through the get
\* of its liveness loop. The holder is suspended, still holding the lock, while
\* it awaits the persistent store (_get_from_db, _save_to_db); a get that
\* finds a live entry in the in-process map returns without suspending.

\* `async with self._lock` entered by caller c for a get, a set or the get of
\* a check_and_regenerate_all on behalf of device mac. asyncio.Lock.acquire
\* returns at once when the lock is free and nobody waits, else the caller
\* joins the queue of waiters.
LockCall(c, macs) ==
    /\ lock.pc[c].pc = "idle"
    /\ \E mac \in macs, op \in {"get", "set", "check"}, hit \in BOOLEAN :
         LET suspends == op = "set" \/ ~hit
         IN IF ~lock.locked /\ lock.waiters = <<>>
            THEN /\ suspends
                 /\ lock' = [lock EXCEPT !.locked = TRUE,
                                 !.pc[c] = [pc |-> "db", mac |-> mac, op |-> op]]
            ELSE lock' = [lock EXCEPT !.waiters = Append(@, c),
                                 !.pc[c] = [pc |-> "wait", mac |-> mac, op |-> op,
                                            suspends |-> suspends]]
    /\ UNCHANGED <<cvars, obs, gen, rend, ttl, registry, objs>>

\* the first waiter is woken after a release and takes the lock
LockAcquire(c) ==
    /\ ~lock.locked
    /\ lock.waiters # <<>>
    /\ Head(lock.waiters) = c
    /\ lock' = [lock EXCEPT
                   !.waiters = Tail(@),
                   !.locked = lock.pc[c].suspends,
                   !.pc[c] = IF lock.pc[c].suspends
                             THEN [pc |-> "db", mac |-> lock.pc[c].mac, op |-> lock.pc[c].op]
                             ELSE [pc |-> "idle"]]
    /\ UNCHANGED <<cvars, obs, gen, rend, ttl, registry, objs>>

\* the awaited store call has returned or raised (the exception is
\* swallowed) and the `async with` block is left
LockRelease(c) ==
    /\ lock.pc[c].pc = "db"
    /\ lock' = [lock EXCEPT !.locked = FALSE, !.pc[c] = [pc |-> "idle"]]
    /\ UNCHANGED <<cvars, obs, gen, rend, ttl, registry, objs>>

LockNext ==
    \/ \E c \in Callers : LockCall(c, Macs)
    \/ \E c \in Callers : LockAcquire(c)
    \/ \E c \in Callers : LockRelease(c)

LockSpec == Init /\ [][LockNext]_vars

\* ------------------------------------------------------------- properties
ObsHasGet == obs.op \in {"get", "checkstep", "check"} /\ "get" \in DOMAIN obs

\* C1: at most one background batch per device is in flight at any time, and
\* a check_and_regenerate_all schedules a batch only when none is in flight
\* for its device.
C1_SingleFlight ==
    /\ \A mac \in Macs : Cardinality(InFlight(mac)) <= 1
    /\ (obs.op = "check" /\ obs.spawned) => obs.inflightBefore = 0

\* a second call on a cold device found the batch of the first in flight
C1_Witness ==
    /\ obs.op = "check"
    /\ obs.modes # <<>>
    /\ obs.result = FALSE
    /\ ~obs.spawned
    /\ obs.inflightBefore = 1
    /\ cache = EmptyDict

\* C2: a raster returned by get was written by a set for the same key less
\* than ttl_minutes(config) minutes before the get.
C2_ReturnedRasterWithinTtl ==
    (ObsHasGet /\ obs.get.result # None) =>
        /\ obs.get.result.k = obs.get.key
        /\ obs.get.t - obs.get.result.at < obs.get.ttl

\* C4: a batch that ran to completion with generation and rendering
\* succeeding for every persona has stored every persona in the cache.
C4_BatchStoresEveryPersona ==
    (obs.op = "batch" /\ obs.ctx /\ obs.generated) =>
        /\ obs.stored
        /\ \A i \in 1..Len(obs.modes) :
              GetCacheKey(obs.mac, obs.modes[i], obs.res) \in DOMAIN cache

\* C5: the in-flight marker of a device is set only while a batch of that
\* device is running, and every started batch ends with the marker cleared.
C5_MarkerCleared ==
    /\ [](\A mac \in Macs : mac \in regenerating => InFlight(mac) # {})
    /\ \A mac \in Macs : (mac \in regenerating) ~> (mac \notin regenerating)

\* a batch whose shared date/weather fetch raised has ended, marker cleared
C5_Witness ==
    /\ obs.op = "batch"
    /\ ~obs.ctx
    /\ obs.mac \notin regenerating

C3_ExhaustedDedupReturnsFallback ==
    (/\ gen.pc = "done"
     /\ gen.content_cfg.type \in LlmTypes
     /\ gen.collisions = 1 + DEDUP_MAX_RETRIES)
    => /\ gen.result.error = ""
       /\ gen.result.value \in
            {gen.fallback, ApplyPostProcess(gen.fallback, gen.content_cfg)}

\* C8: resolving content for a persona id registered neither as a native nor
\* as a declarative mode raises a mode-not-found error (ValueError) and
\* returns no content record.
C8_UnknownPersonaRaises ==
    (/\ gen.pc = "done"
     /\ gen.via = "resolve"
     /\ ~IsSupported(gen.persona))
    => gen.result.error = "ValueError"

\* C9: under total upstream failure, generate for a registered declarative
\* mode whose content type calls upstream (language model, external data,
\* image provider, or a composite of them) raises nothing and returns the
\* mode's declared fallback unchanged.
C9_TotalFailureReturnsFallback ==
    (/\ gen.pc = "done"
     /\ gen.via = "generate"
     /\ ~gen.up
     /\ gen.content_cfg.type \notin {"static", "computed"})
    => /\ gen.result.error = ""
       /\ gen.result.value = gen.fallback

\* C10: in the llm/llm_json path, once an attempt has failed (its call raised,
\* its response did not parse, or its record failed the quality gate) the
\* invocation makes no further language-model call and returns the fallback,
\* whatever the dedup history holds.
C10_FailureReturnsFallbackAtOnce ==
    (/\ gen.pc \in {"llm", "done"}
     /\ gen.content_cfg.type \in LlmTypes
     /\ gen.failed_at > 0)
    => /\ gen.calls = gen.failed_at
       /\ gen.pc = "done" =>
            /\ gen.result.error = ""
            /\ gen.result.value \in
                 {gen.fallback, ApplyPostProcess(gen.fallback, gen.content_cfg)}

\* C11: one generate call makes at most 3 language-model attempts; after an
\* attempt another one follows exactly when that attempt's record collided
\* with a stored recent hash and it was attempt 1 or 2; and every call that
\* awaits the language model comes to its end.
C11_BoundedAttempts ==
    /\ [](gen.pc \in {"llm", "done"} => gen.calls <= 3)
    /\ [][gen.pc = "llm" =>
            /\ gen'.calls = gen.calls + 1
            /\ gen'.pc \in {"llm", "done"}
            /\ gen'.pc = "llm" <=>
                 (gen'.collisions = gen.collisions + 1 /\ gen'.calls <= 2)]_vars
    /\ (gen.pc = "llm") ~> (gen.pc = "done")

C11_Witness ==
    /\ gen.pc = "done"
    /\ gen.content_cfg.type \in LlmTypes
    /\ gen.calls = 3
    /\ gen.collisions = 2

\* C12: every record the llm/llm_json path returns, fresh or fallback, has had
\* the mode's post_process transforms applied: each named field holds a
\* transformed text, so applying the transforms again changes nothing.
C12_ReturnedRecordPostProcessed ==
    (/\ gen.pc = "done"
     /\ gen.content_cfg.type \in LlmTypes)
    => /\ gen.result.error = ""
       /\ ApplyPostProcess(gen.result.value, gen.content_cfg) = gen.result.value

\* C13: every render call, for every mode definition, content record and
\* resolution, raises no error and returns a 1-bit raster of exactly the
\* requested width and height. Violated: a body of one vertically centered
\* centered_text block with the default font size raises at 200x150.
C13_RenderReturnsRequestedRaster ==
    rend.pc = "done"
    => /\ ~rend.raised
       /\ rend.img.mode = "1"
       /\ rend.img.size = rend.screen

\* C14: a list block that displays fewer rows than it was given items draws,
\* after those k rows, one "+N more" caption with N = number of items - k,
\* and the render does not raise. Violated: max_items = 3 with 5 items draws
\* 3 rows and no caption when the 3 rows fit, and 2 rows and "+3 more" when
\* the height is constrained.
C14_TruncatedListHasMoreCaption ==
    LET mode_def == RenderModes[rend.mode_id]
        body == mode_def.layout.body
        content == RenderContents[rend.content]
        drawn == rend.img.drawn
        rows == {i \in 1..Len(drawn) : drawn[i][1] = "row"}
        mores == {i \in 1..Len(drawn) : drawn[i][1] = "more"}
    IN  (/\ rend.pc = "done"
         /\ rend.mode_id \in {"LIST3", "LIST3_LOW", "LIST3_LOWER"}
         /\ "items" \in DOMAIN content)
        => /\ ~rend.raised
           /\ Cardinality(rows) < content.items
              => /\ Cardinality(mores) = 1
                 /\ \A m \in mores :
                      /\ drawn[m][3] = content.items - Cardinality(rows)
                      /\ \A r \in rows : r < m

C16_ShippedModesKeepFirstDefinition ==
    /\ registry.builtin = InitRegistry.builtin
    /\ \A id \in BuiltinJsonIds :
          /\ id \in DOMAIN registry.json_modes
          /\ registry.json_modes[id] = InitRegistry.json_modes[id]

\* C17: load_json_mode returns None and leaves the registry as it was when
\* the definition's id is empty, its content type is none of the seven
\* tags, it is an llm or llm_json definition without a prompt template or
\* without a fallback, its layout body is empty, or its id is that of a
\* native mode.
C17_RejectedLoadLeavesRegistry ==
    [][LET d == registry'.last.definition
       IN  (/\ registry'.last.op = "load"
            /\ \/ d.mode_id = ""
               \/ d.ctype \notin {"llm", "llm_json", "static", "external_data",
                                  "image_gen", "computed", "composite"}
               \/ d.ctype \in {"llm", "llm_json"} /\ d.prompt_template = ""
               \/ d.ctype \in {"llm", "llm_json"} /\ ~d.has_fallback
               \/ d.body_len = 0
               \/ Upper(d.mode_id) \in registry.builtin)
           => /\ ~registry'.last.result.loaded
              /\ registry'.json_modes = registry.json_modes
              /\ registry'.builtin = registry.builtin]_vars

\* A readable llm definition whose only defect is the missing fallback was
\* handed to load_json_mode after a custom mode had been registered.
C17_Witness ==
    /\ registry.last.op = "load"
    /\ registry.last.readable
    /\ registry.last.definition = ModeDef("MY", "llm", "p", FALSE, 1, "uploaded")
    /\ ~registry.last.result.loaded
    /\ "MY" \in DOMAIN registry.json_modes

\* C18: unregister_custom(id) removes the entry and returns true exactly
\* when id (folded to upper case) is registered with source custom;
\* otherwise it returns false and leaves the registry as it was.
C18_RemoveOnlyCustom ==
    [][registry'.last.op = "remove"
       => LET mode_id == Upper(registry'.last.mode_id)
              custom == /\ mode_id \in DOMAIN registry.json_modes
                        /\ registry.json_modes[mode_id].source = "custom"
          IN  /\ registry'.last.result = custom
              /\ registry'.builtin = registry.builtin
              /\ custom => /\ mode_id \notin DOMAIN registry'.json_modes
                           /\ \A id \in DOMAIN registry.json_modes \ {mode_id} :
                                 /\ id \in DOMAIN registry'.json_modes
                                 /\ registry'.json_modes[id] = registry.json_modes[id]
              /\ ~custom => registry'.json_modes = registry.json_modes]_vars

\* A custom mode was removed while a shipped mode stayed registered.
C18_Witness ==
    /\ registry.last.op = "remove"
    /\ registry.last.mode_id = "MY"
    /\ registry.last.result = TRUE
    /\ "MY" \notin DOMAIN registry.json_modes
    /\ "ZEN" \in DOMAIN registry.json_modes

\* C19: a get made within the TTL of the latest set, with no set in
\* between, returns the raster stored by that set exactly when both calls
\* name the same device, personas equal up to letter case, and the same
\* resolution; so distinct (device, upper-cased persona, resolution)
\* triples never share an entry.
C19_SameTripleSameEntry ==
    (/\ obs.op = "get"
     /\ objs.lastset.op = "set"
     /\ obs.get.t - objs.lastset.t < obs.get.ttl)
    => ((obs.get.result = objs.lastset.img_copy)
        <=> (/\ obs.call[1] = objs.lastset.mac
             /\ Upper(obs.call[2]) = Upper(objs.lastset.persona)
             /\ obs.call[3] = objs.lastset.res))

\* A get under the lower-case name returned what was set under the
\* upper-case name, at the second resolution.
C19_Witness ==
    /\ obs.op = "get"
    /\ objs.lastset.op = "set"
    /\ obs.get.t - objs.lastset.t < obs.get.ttl
    /\ obs.get.result = objs.lastset.img_copy
    /\ obs.call = <<"A", "stoic", <<200, 150>>>>
    /\ objs.lastset.persona = "STOIC"

\* C20: a get that follows another get for the same key, both within the
\* TTL of the key's latest set and with no set for the key in between,
\* returns the same pixels as the first, whatever the caller has drawn on
\* the objects it holds.
C20_RepeatedGetSamePixels ==
    (/\ obs.op = "get"
     /\ obs.get.result # None
     /\ obs.again
     /\ obs.get.key \in DOMAIN objs.setat
     /\ obs.get.t - objs.setat[obs.get.key] < obs.get.ttl)
    => obs.pixels = obs.first

\* The second get came after the caller had drawn both on the object it
\* passed to set and on the raster the first get returned.
C20_Witness ==
    /\ obs.op = "get"
    /\ obs.get.result # None
    /\ obs.again
    /\ obs.get.key \in DOMAIN objs.setat
    /\ obs.get.t - objs.setat[obs.get.key] < obs.get.ttl
    /\ objs.lastset.op = "set"
    /\ GetCacheKey(objs.lastset.mac, objs.lastset.persona, objs.lastset.res) = obs.get.key
    /\ objs.heap[objs.lastset.img] = Scribbled(objs.lastset.img)
    /\ \E o \in objs.held \ {objs.lastset.img} : objs.heap[o] = Scribbled(o)
    /\ obs.pixels = FreshPixels(objs.lastset.img)

C22_NoCrossDeviceWait ==
    \A c, d \in Callers :
        (lock.pc[c].pc = "wait" /\ lock.pc[d].pc = "db")
        => lock.pc[d].mac = lock.pc[c].mac

\* C23: an exception raised for one persona of a batch is caught and does not
\* keep the other personas of the batch from being generated and cached: once
\* a persona of the batch has failed, every further persona of the same batch
\* whose generation and rendering succeed is stored in both cache layers.
C23_FailureDoesNotStopOthers ==
    [][\A t \in TaskIds :
         ( /\ tasks[t].pc = "gen"
           /\ tasks'[t].pc = "gen"
           /\ ~tasks[t].generated )
         => \A persona \in tasks'[t].rendered \ tasks[t].rendered :
              LET key == GetCacheKey(tasks[t].mac, persona, tasks[t].res)
              IN /\ key \in DOMAIN cache'
                 /\ key \in DOMAIN db'
                 /\ cache'[key].img.by = "bg"
                 /\ db'[key].img.by = "bg"]_vars

\* C24: when content of an llm/llm_json mode is generated on behalf of a
\* device, the generator is handed that device's id and works against the
\* recent hashes stored for the device and the mode: a call that ends after
\* one successful attempt did not return a record whose hash is stored.
C24_DeviceHistoryConsulted ==
    (/\ gen.pc = "done"
     /\ gen.content_cfg.type \in LlmTypes
     /\ gen.device # "")
    => /\ gen.mac = gen.device
       /\ gen.recent_hashes = gen.stored
       /\ (gen.calls = 1 /\ gen.failed_at = 0) => gen.hash \notin gen.stored

\* C25: for every mode the registry holds and every target resolution, the
\* layout that is rendered (the base layout merged with the override declared
\* for that resolution) has a body of at least one block.
C25_RenderedBodyNonEmpty ==
    \A mode_id \in DOMAIN registry.json_modes, res \in Resolutions :
        LayoutBodyLen(registry.json_modes[mode_id].definition, res) > 0

\* C26: in every body mode and at every resolution, whatever a body block
\* draws, other than a list's "+N more" caption, starts at or below the
\* status-band boundary and above the footer boundary.
C26_BodyStaysInsideBodyBand ==
    LET mode_def == RenderModes[rend.mode_id]
        ft_layout == DictGet(mode_def.layout, "footer", EmptyDict)
        footer_top == rend.screen[2] - MinScaleInt(DictGet(ft_layout, "height", 30),
                                                   rend.screen[1], rend.screen[2])
        status_bar_bottom == StatusBarBottom(rend.screen[2])
        drawn == rend.img.drawn
    IN  (rend.pc = "done" /\ ~rend.raised)
        => \A i \in 1..Len(drawn) :
              drawn[i][1] \in {"line", "row", "rule"}
              => /\ status_bar_bottom <= drawn[i][2]
                 /\ drawn[i][2] < footer_top

\* C27: a composite returns the accumulator of its steps' results, merged in
\* declared order so that for a key produced by several steps the value of
\* the latest of them stands, or its own fallback when no step produced a key.
C27_CompositeReturnsAccumulator ==
    (/\ gen.pc = "done"
     /\ gen.via = "generate"
     /\ gen.content_cfg.type = "composite")
    => LET steps == gen.content_cfg.steps
           accumulator(ins) ==
               LET part == [i \in 1..Len(steps) |-> GenerateStep(steps[i], ins[i])]
                   keys == UNION {DOMAIN part[i] : i \in 1..Len(steps)}
                   latest(k) == CHOOSE i \in 1..Len(steps) :
                                   /\ k \in DOMAIN part[i]
                                   /\ \A j \in (i + 1)..Len(steps) : k \notin DOMAIN part[j]
               IN  IF keys = {} THEN gen.fallback
                   ELSE [k \in keys |-> part[latest(k)][k]]
       IN  /\ gen.result.error = ""
           /\ \E ins \in CompositeInputs(gen.content_cfg, gen.up) :
                 gen.result.value = accumulator(ins)

\* C28: an image block whose image cannot be fetched or decoded, from the
\* network or from a pre-fetched buffer, draws the "unavailable" placeholder,
\* moves the cursor past the block and raises nothing to the caller of render.
C28_ImageFailureDrawsPlaceholder ==
    LET content == RenderContents[rend.content]
        drawn == rend.img.drawn
        source == IF DictGet(content, "_prefetched_image_url", "") # ""
                  THEN content._prefetched_image_url
                  ELSE DictGet(content, "fetch", "fail")
    IN  (/\ rend.pc = "done"
         /\ rend.mode_id = "PHOTO"
         /\ DictGet(content, "image_url", "") # ""
         /\ source # "image")
        => /\ ~rend.raised
           /\ \E i \in 1..Len(drawn) : drawn[i][1] = "unavailable"

\* C29: at every resolution the bands drawn are the bands that bound the
\* body: the status rule lies within the top floor(height * 0.12) rows
\* (floor(height * 0.10) when height < 200) and the footer rule within the
\* bottom floor(30 * min(width / 400, height / 300)) rows.
C29_DrawnBandsMatchBodyBounds ==
    LET drawn == rend.img.drawn
        screen_w == rend.screen[1]
        screen_h == rend.screen[2]
    IN  (rend.pc = "done" /\ ~rend.raised)
        => \A i \in 1..Len(drawn) :
              /\ drawn[i][1] = "status" => drawn[i][2] < StatusBarBottom(screen_h)
              /\ drawn[i][1] = "footer"
                 => drawn[i][2] >= screen_h - MinScaleInt(30, screen_w, screen_h)

\* C30: the personas counted by the TTL are the enabled cacheable personas
\* that check_and_regenerate_all examines, whatever the letter case of the
\* names in the config: the TTL a running check applies is the one computed
\* from the number of personas it examines, and it is positive when the
\* refresh interval is.
C30_TtlCountsCheckedPersonas ==
    \A c \in Callers :
        calls[c].pc = "loop"
        => /\ calls[c].ttl_minutes =
                IntTimes1_1(calls[c].config.refresh_interval * Len(calls[c].modes))
           /\ calls[c].config.refresh_interval > 0 => calls[c].ttl_minutes > 0

====
